---------------------------- MODULE Spec2Model ----------------------------
(***************************************************************************)
(* PaceForge workout generator (src/src/generator.ts).                     *)
(*                                                                         *)
(* Numbers.  The generator works on JavaScript numbers.  The model keeps   *)
(* them exact:                                                             *)
(*   - a speed is an integer number of speed units; every profile speed    *)
(*     is a multiple of 20 units, so that the products the builders form   *)
(*     (max * intensity, (max - min) * 0.35) with intensities given in     *)
(*     whole percents that are multiples of 5 are integers again and       *)
(*     "\div 100" is an exact division, not a rounding;                    *)
(*   - an intensity is an integer number of percents (0.85 is 85);         *)
(*   - a duration in minutes (warmupMins, cooldownMins, totalMins) is an   *)
(*     integer number of half seconds (5 minutes is 600), so that          *)
(*     minutes * 60 may fall on a half second and Math.round has work to   *)
(*     do; a duration in seconds is an integer.                            *)
(* An optional value (T | undefined) is a record [def, val].               *)
(* A cue (a string) is a record [def, text] whose text is the sequence of  *)
(* the tokens the template literals put together; two cues are the same    *)
(* string exactly when they are the same token sequence.                   *)
(***************************************************************************)
EXTENDS Integers, Sequences, FiniteSets, TLC

VARIABLES
    profile,      \* the DeviceProfile of the caller
    call,         \* the last call made: which function, with which arguments
    raw,          \* the raw segment list the builder handed to applySafety
    constrained,  \* applySafety's list after the quantize / ramp-limit loop
    safeSegments, \* the list applySafety returned
    status,       \* "idle", or how the call ended: "returned" or "threw"
    workout,      \* the Workout a builder returned
    value,        \* the number quantizeDown returned
    lines,        \* the text describe returned, line by line
    runner        \* the playback screen: its state, its interval, what it spoke

vars == <<profile, call, raw, constrained, safeSegments, status, workout, value, lines,
          runner>>

-----------------------------------------------------------------------------
(* Bounds of the model *)

MaxLen == 3          \* longest profile.speeds list
MaxRepeats == 2      \* largest opts.repeats
MaxSteps == 3        \* largest opts.steps

-----------------------------------------------------------------------------
(* Optional values and cues *)

None == [def |-> FALSE, val |-> 0]
Some(v) == [def |-> TRUE, val |-> v]
OrDefault(opt, d) == IF opt.def THEN opt.val ELSE d

NoCue == [def |-> FALSE, text |-> <<>>]
Cue(tokens) == [def |-> TRUE, text |-> tokens]
\* JavaScript truthiness of a cue: defined and not the empty string.
Truthy(cue) == cue.def /\ Len(cue.text) > 0

Tok(kind, i, n, speed, units) == <<kind, i, n, speed, units>>
\* The literal pieces of the templates: "(clamped)" on its own, " (clamped)"
\* after a cue, and " | " between two cues.
ClampedTok == Tok("(clamped)", 0, 0, 0, "")
ClampedSuffixTok == Tok(" (clamped)", 0, 0, 0, "")
SepTok == Tok(" | ", 0, 0, 0, "")

-----------------------------------------------------------------------------
(* Arithmetic *)

Abs(x) == IF x < 0 THEN -x ELSE x
Max2(a, b) == IF a >= b THEN a ELSE b
Min2(a, b) == IF a <= b THEN a ELSE b

\* Math.round of a number given in halves: half-way cases go up.
RoundHalves(h) == (h + 1) \div 2

\* Math.round(p / q) for q > 0.
RoundRatio(p, q) == (2 * p + q) \div (2 * q)

clamp(n, lo, hi) == Max2(lo, Min2(hi, n))

RECURSIVE SumSecs(_)
SumSecs(segs) ==
    IF Len(segs) = 0 THEN 0 ELSE segs[1].secs + SumSecs(Tail(segs))

-----------------------------------------------------------------------------
(* quantizeDown *)

Threw == [threw |-> TRUE, value |-> 0]
Value(v) == [threw |-> FALSE, value |-> v]

\* The for-loop of quantizeDown from position i on, candidate so far c.
RECURSIVE QuantizeScan(_, _, _, _)
QuantizeScan(allowed, target, i, c) ==
    IF i > Len(allowed) THEN c
    ELSE IF allowed[i] <= target
         THEN QuantizeScan(allowed, target, i + 1, allowed[i])
         ELSE c

\* A quantizeDown without the empty check: the scan starts from allowed[0],
\* which on an empty list is undefined (modelled as 0, no speed).
quantizeDownUnguarded(allowed, target) ==
    IF Len(allowed) = 0 THEN Value(0)
    ELSE Value(QuantizeScan(allowed, target, 1, allowed[1]))

\* A quantizeDown that rounds up: the smallest allowed value >= target, or
\* the largest allowed value when the target is above them all.
quantizeDownUp(allowed, target) ==
    IF Len(allowed) = 0 THEN Threw
    ELSE LET above == {i \in 1..Len(allowed) : allowed[i] >= target}
         IN  Value(IF above = {} THEN allowed[Len(allowed)]
                   ELSE allowed[CHOOSE i \in above : \A j \in above : i <= j])

\* The for-loop with "value < target" in place of "value <= target".
RECURSIVE QuantizeScanStrict(_, _, _, _)
QuantizeScanStrict(allowed, target, i, c) ==
    IF i > Len(allowed) THEN c
    ELSE IF allowed[i] < target
         THEN QuantizeScanStrict(allowed, target, i + 1, allowed[i])
         ELSE c

quantizeDownStrict(allowed, target) ==
    IF Len(allowed) = 0 THEN Threw
    ELSE Value(QuantizeScanStrict(allowed, target, 1, allowed[1]))

quantizeDown(allowed, target) ==
    IF Len(allowed) = 0 THEN Threw
    ELSE Value(QuantizeScan(allowed, target, 1, allowed[1]))

-----------------------------------------------------------------------------
(* sortSpeeds: [...speeds].sort((a, b) => a - b) *)

RECURSIVE InsertSorted(_, _)
InsertSorted(sorted, v) ==
    IF Len(sorted) = 0 THEN <<v>>
    ELSE IF v < sorted[1] THEN <<v>> \o sorted
         ELSE <<sorted[1]>> \o InsertSorted(Tail(sorted), v)

RECURSIVE sortSpeeds(_)
sortSpeeds(speeds) ==
    IF Len(speeds) = 0 THEN <<>>
    ELSE InsertSorted(sortSpeeds(SubSeq(speeds, 1, Len(speeds) - 1)),
                      speeds[Len(speeds)])

-----------------------------------------------------------------------------
(* mergeCue *)

\* A cue merge that joins two cues even when they are the same text.
mergeCueAlwaysJoin(previous, next) ==
    IF Truthy(previous) /\ Truthy(next)
    THEN Cue(previous.text \o <<SepTok>> \o next.text)
    ELSE IF previous.def THEN previous ELSE next

mergeCue(previous, next) ==
    IF Truthy(previous) /\ Truthy(next) /\ previous # next
    THEN Cue(previous.text \o <<SepTok>> \o next.text)
    ELSE IF previous.def THEN previous ELSE next

-----------------------------------------------------------------------------
(* applySafety *)

Seg(secs, speed, cue) == [secs |-> secs, speed |-> speed, cue |-> cue]

\* A filter that keeps only the speeds strictly inside the limit.
RECURSIVE FilterWithinStrict(_, _, _)
FilterWithinStrict(allowed, prevSpeed, rampLimit) ==
    IF Len(allowed) = 0 THEN <<>>
    ELSE (IF Abs(allowed[1] - prevSpeed) < rampLimit
          THEN <<allowed[1]>> ELSE <<>>)
         \o FilterWithinStrict(Tail(allowed), prevSpeed, rampLimit)

\* allowed.filter((value) => Math.abs(value - prevSpeed) <= rampLimit)
RECURSIVE FilterWithin(_, _, _)
FilterWithin(allowed, prevSpeed, rampLimit) ==
    IF Len(allowed) = 0 THEN <<>>
    ELSE (IF Abs(allowed[1] - prevSpeed) <= rampLimit
          THEN <<allowed[1]>> ELSE <<>>)
         \o FilterWithin(Tail(allowed), prevSpeed, rampLimit)

\* A scan that keeps the candidate furthest from baseSpeed.
RECURSIVE BestScanFarthest(_, _, _, _)
BestScanFarthest(candidates, baseSpeed, i, best) ==
    IF i > Len(candidates) THEN best
    ELSE IF Abs(candidates[i] - baseSpeed) > Abs(best - baseSpeed)
         THEN BestScanFarthest(candidates, baseSpeed, i + 1, candidates[i])
         ELSE BestScanFarthest(candidates, baseSpeed, i + 1, best)

\* The loop over the candidates from position i on, best so far `best`:
\* a candidate replaces best only when it is strictly closer to baseSpeed.
RECURSIVE BestScan(_, _, _, _)
BestScan(candidates, baseSpeed, i, best) ==
    IF i > Len(candidates) THEN best
    ELSE IF Abs(candidates[i] - baseSpeed) < Abs(best - baseSpeed)
         THEN BestScan(candidates, baseSpeed, i + 1, candidates[i])
         ELSE BestScan(candidates, baseSpeed, i + 1, best)

\* `${cue} (clamped)` whatever the cue is, the empty or missing one too.
ClampedAlwaysAppended(cue) == Cue(Append(cue.text, ClampedSuffixTok))

\* A limiter that changes the speed and leaves the cue without the marker.
ClampedUnmarked(cue) == cue

\* cue ? `${cue} (clamped)` : '(clamped)'
Clamped(cue) ==
    IF Truthy(cue) THEN Cue(Append(cue.text, ClampedSuffixTok))
    ELSE Cue(<<ClampedTok>>)

\* A ramp limiter that moves by the limit itself, prevSpeed +/- rampLimit,
\* instead of picking one of the allowed speeds.
ConstrainOneArithmetic(allowed, rampLimit, done, segment, baseSpeed) ==
    IF Len(done) > 0 /\ rampLimit.def
       /\ Abs(baseSpeed - done[Len(done)].speed) > rampLimit.val
    THEN Seg(segment.secs,
             IF baseSpeed > done[Len(done)].speed
             THEN done[Len(done)].speed + rampLimit.val
             ELSE done[Len(done)].speed - rampLimit.val,
             Clamped(segment.cue))
    ELSE Seg(segment.secs, baseSpeed, segment.cue)

\* No ramp limiting at all: every segment is emitted at its quantized speed.
ConstrainOneNoRamp(allowed, rampLimit, done, segment, baseSpeed) ==
    Seg(segment.secs, baseSpeed, segment.cue)

\* A ramp limiter that holds the previous speed whenever the base is out of
\* reach, without looking for a closer allowed speed.
ConstrainOneStall(allowed, rampLimit, done, segment, baseSpeed) ==
    IF Len(done) > 0 /\ rampLimit.def
       /\ Abs(baseSpeed - done[Len(done)].speed) > rampLimit.val
    THEN Seg(segment.secs, done[Len(done)].speed, Clamped(segment.cue))
    ELSE Seg(segment.secs, baseSpeed, segment.cue)

\* One iteration of the first loop, quantizeDown having returned baseSpeed:
\* the segment pushed onto `done` (the constrained list so far).
ConstrainOne(allowed, rampLimit, done, segment, baseSpeed) ==
    IF Len(done) > 0 /\ rampLimit.def
    THEN LET prevSpeed == done[Len(done)].speed
             candidates == FilterWithin(allowed, prevSpeed, rampLimit.val)
         IN  IF Abs(baseSpeed - prevSpeed) > rampLimit.val
             THEN IF Len(candidates) > 0
                  THEN LET best == BestScan(candidates, baseSpeed, 1, candidates[1])
                       IN  IF best # baseSpeed
                           THEN Seg(segment.secs, best, Clamped(segment.cue))
                           ELSE Seg(segment.secs, baseSpeed, segment.cue)
                  ELSE IF prevSpeed # baseSpeed
                       THEN Seg(segment.secs, prevSpeed, Clamped(segment.cue))
                       ELSE Seg(segment.secs, baseSpeed, segment.cue)
             ELSE Seg(segment.secs, baseSpeed, segment.cue)
    ELSE Seg(segment.secs, baseSpeed, segment.cue)

\* A first loop that limits each segment against the quantized target of the
\* raw segment before it instead of the speed emitted for it.
RECURSIVE ConstrainLoopRawPrev(_, _, _, _, _)
ConstrainLoopRawPrev(allowed, rampLimit, rawSegments, i, done) ==
    IF i > Len(rawSegments) THEN [threw |-> FALSE, segments |-> done]
    ELSE LET q == quantizeDown(allowed, rawSegments[i].speed)
             before == IF i > 1
                       THEN <<Seg(rawSegments[i - 1].secs,
                                  quantizeDown(allowed, rawSegments[i - 1].speed).value,
                                  rawSegments[i - 1].cue)>>
                       ELSE <<>>
         IN  IF q.threw THEN [threw |-> TRUE, segments |-> <<>>]
             ELSE ConstrainLoopRawPrev(allowed, rampLimit, rawSegments, i + 1,
                    Append(done, ConstrainOne(allowed, rampLimit, before,
                                              rawSegments[i], q.value)))

\* The first loop of applySafety from raw segment i on: [threw, segments].
RECURSIVE ConstrainLoop(_, _, _, _, _)
ConstrainLoop(allowed, rampLimit, rawSegments, i, done) ==
    IF i > Len(rawSegments) THEN [threw |-> FALSE, segments |-> done]
    ELSE LET q == quantizeDown(allowed, rawSegments[i].speed)
         IN  IF q.threw THEN [threw |-> TRUE, segments |-> <<>>]
             ELSE ConstrainLoop(allowed, rampLimit, rawSegments, i + 1,
                    Append(done, ConstrainOne(allowed, rampLimit, done,
                                              rawSegments[i], q.value)))

constrainStage(prof, rawSegments) ==
    ConstrainLoop(sortSpeeds(prof.speeds), prof.rampLimitPerChange,
                  rawSegments, 1, <<>>)

\* A merge loop with the comparisons against minSegmentSec turned around.
RECURSIVE MergeLoopFlipped(_, _, _, _)
MergeLoopFlipped(minSegmentSec, segs, i, merged) ==
    IF i > Len(segs) THEN merged
    ELSE LET segment == segs[i]
             n == Len(merged)
         IN  IF /\ n > 0
                /\ merged[n].speed = segment.speed
                /\ (merged[n].secs > minSegmentSec \/ segment.secs > minSegmentSec)
             THEN MergeLoopFlipped(minSegmentSec, segs, i + 1,
                    [merged EXCEPT ![n] =
                        Seg(merged[n].secs + segment.secs, merged[n].speed,
                            mergeCue(merged[n].cue, segment.cue))])
             ELSE MergeLoopFlipped(minSegmentSec, segs, i + 1, Append(merged, segment))

\* A merge loop that joins two neighbours only when both are short.
RECURSIVE MergeLoopBothShort(_, _, _, _)
MergeLoopBothShort(minSegmentSec, segs, i, merged) ==
    IF i > Len(segs) THEN merged
    ELSE LET segment == segs[i]
             n == Len(merged)
         IN  IF /\ n > 0
                /\ merged[n].speed = segment.speed
                /\ (merged[n].secs < minSegmentSec /\ segment.secs < minSegmentSec)
             THEN MergeLoopBothShort(minSegmentSec, segs, i + 1,
                    [merged EXCEPT ![n] =
                        Seg(merged[n].secs + segment.secs, merged[n].speed,
                            mergeCue(merged[n].cue, segment.cue))])
             ELSE MergeLoopBothShort(minSegmentSec, segs, i + 1, Append(merged, segment))

\* A merge loop that joins the cues but leaves the entry's duration as it was.
RECURSIVE MergeLoopNoSum(_, _, _, _)
MergeLoopNoSum(minSegmentSec, segs, i, merged) ==
    IF i > Len(segs) THEN merged
    ELSE LET segment == segs[i]
             n == Len(merged)
         IN  IF /\ n > 0
                /\ merged[n].speed = segment.speed
                /\ (merged[n].secs < minSegmentSec \/ segment.secs < minSegmentSec)
             THEN MergeLoopNoSum(minSegmentSec, segs, i + 1,
                    [merged EXCEPT ![n] =
                        Seg(merged[n].secs, merged[n].speed,
                            mergeCue(merged[n].cue, segment.cue))])
             ELSE MergeLoopNoSum(minSegmentSec, segs, i + 1, Append(merged, segment))

\* The second loop of applySafety from constrained segment i on.
RECURSIVE MergeLoop(_, _, _, _)
MergeLoop(minSegmentSec, segs, i, merged) ==
    IF i > Len(segs) THEN merged
    ELSE LET segment == segs[i]
             n == Len(merged)
         IN  IF /\ n > 0
                /\ merged[n].speed = segment.speed
                /\ (merged[n].secs < minSegmentSec \/ segment.secs < minSegmentSec)
             THEN MergeLoop(minSegmentSec, segs, i + 1,
                    [merged EXCEPT ![n] =
                        Seg(merged[n].secs + segment.secs, merged[n].speed,
                            mergeCue(merged[n].cue, segment.cue))])
             ELSE MergeLoop(minSegmentSec, segs, i + 1, Append(merged, segment))

mergeStage(prof, segs) ==
    IF ~prof.minSegmentSec.def THEN segs
    ELSE MergeLoop(prof.minSegmentSec.val, segs, 1, <<>>)

applySafety(prof, rawSegments) ==
    LET c == constrainStage(prof, rawSegments)
    IN  IF c.threw THEN [threw |-> TRUE, segments |-> <<>>]
        ELSE [threw |-> FALSE, segments |-> mergeStage(prof, c.segments)]

-----------------------------------------------------------------------------
(* finalizeWorkout *)

Workout(name, units, totalSecs, segments) ==
    [name |-> name, units |-> units, totalSecs |-> totalSecs, segments |-> segments]

NoWorkout == Workout("", "", 0, <<>>)

\* What a builder call produced: the workout it returned, or the error thrown.
Returned(rawSegments, w) == [threw |-> FALSE, raw |-> rawSegments, workout |-> w]
Thrown == [threw |-> TRUE, raw |-> <<>>, workout |-> NoWorkout]

\* A total that leaves the first segment out (a reduce started on the first
\* element instead of on 0).
finalizeWorkoutNoFirst(prof, name, segments) ==
    LET safe == applySafety(prof, segments)
    IN  IF safe.threw THEN Thrown
        ELSE Returned(segments,
                      Workout(name, prof.units,
                              IF Len(safe.segments) = 0 THEN 0
                              ELSE SumSecs(Tail(safe.segments)),
                              safe.segments))

finalizeWorkout(prof, name, segments) ==
    LET safe == applySafety(prof, segments)
    IN  IF safe.threw THEN Thrown
        ELSE Returned(segments,
                      Workout(name, prof.units, SumSecs(safe.segments), safe.segments))

-----------------------------------------------------------------------------
(* The plan builders *)

\* speeds[speeds.length - 1] and speeds[0]; read only where speeds is non-empty
\* (on an empty list quantizeDown throws before either is used).
MaxOf(speeds) == speeds[Len(speeds)]
MinOf(speeds) == speeds[1]

\* clamp(min + (max - min) * 0.35, min, max)
WarmTarget(speeds) ==
    clamp(MinOf(speeds) + ((MaxOf(speeds) - MinOf(speeds)) * 35) \div 100,
          MinOf(speeds), MaxOf(speeds))

\* clamp(max * intensity, lo, max), the intensity in percents
IntensityTarget(speeds, intensity, lo) ==
    clamp((MaxOf(speeds) * intensity) \div 100, lo, MaxOf(speeds))

\* A repeat loop that runs once too often (i <= repeats).
RECURSIVE IntervalLoopOneMore(_, _, _, _, _, _, _, _)
IntervalLoopOneMore(i, repeats, hardSecs, easySecs, hard, easy, units, segments) ==
    IF ~(i <= repeats) THEN segments
    ELSE IntervalLoopOneMore(i + 1, repeats, hardSecs, easySecs, hard, easy, units,
            segments \o
            << Seg(hardSecs, hard, Cue(<<Tok("Hard", i + 1, repeats, hard, units)>>)),
               Seg(easySecs, easy, Cue(<<Tok("Easy", i + 1, repeats, easy, units)>>)) >>)

\* The repeat loop of makeIntervals from i on (i counts from 0 as in the code).
RECURSIVE IntervalLoop(_, _, _, _, _, _, _, _)
IntervalLoop(i, repeats, hardSecs, easySecs, hard, easy, units, segments) ==
    IF ~(i < repeats) THEN segments
    ELSE IntervalLoop(i + 1, repeats, hardSecs, easySecs, hard, easy, units,
            segments \o
            << Seg(hardSecs, hard, Cue(<<Tok("Hard", i + 1, repeats, hard, units)>>)),
               Seg(easySecs, easy, Cue(<<Tok("Easy", i + 1, repeats, easy, units)>>)) >>)

makeIntervals(prof, opts) ==
    LET speeds == sortSpeeds(prof.speeds)
        warmupMins == OrDefault(opts.warmupMins, 600)
        cooldownMins == OrDefault(opts.cooldownMins, 600)
        repeats == OrDefault(opts.repeats, 6)
        hardSecs == OrDefault(opts.hardSecs, 90)
        easySecs == OrDefault(opts.easySecs, 90)
        hardIntensity == OrDefault(opts.hardIntensity, 85)
        easyIntensity == OrDefault(opts.easyIntensity, 55)
        warmQ == quantizeDown(speeds, WarmTarget(speeds))
        hardQ == quantizeDown(speeds, IntensityTarget(speeds, hardIntensity, MinOf(speeds)))
        easyQ == quantizeDown(speeds, IntensityTarget(speeds, easyIntensity, MinOf(speeds)))
        warm == warmQ.value
        warmup == IF warmupMins > 0
                  THEN <<Seg(RoundHalves(warmupMins), warm,
                             Cue(<<Tok("Warm-up", 0, 0, warm, prof.units)>>))>>
                  ELSE <<>>
        cooldown == IF cooldownMins > 0
                    THEN <<Seg(RoundHalves(cooldownMins), warm,
                               Cue(<<Tok("Cool-down", 0, 0, warm, prof.units)>>))>>
                    ELSE <<>>
    IN  IF warmQ.threw \/ hardQ.threw \/ easyQ.threw THEN Thrown
        ELSE finalizeWorkout(prof, "Intervals",
                IntervalLoop(0, repeats, hardSecs, easySecs, hardQ.value, easyQ.value,
                             prof.units, warmup) \o cooldown)

\* A stride loop that runs once too often (i <= 4).
RECURSIVE StrideLoopFive(_, _, _, _, _)
StrideLoopFive(i, stride, cruise, units, rebuilt) ==
    IF ~(i <= 4) THEN rebuilt
    ELSE StrideLoopFive(i + 1, stride, cruise, units,
            rebuilt \o
            << Seg(20, stride, Cue(<<Tok("Stride", i + 1, 4, stride, units)>>)),
               Seg(40, cruise, Cue(<<Tok("Easy between strides", 0, 0, cruise, units)>>)) >>)

\* The stride loop of makeSteady from i on.
RECURSIVE StrideLoop(_, _, _, _, _)
StrideLoop(i, stride, cruise, units, rebuilt) ==
    IF ~(i < 4) THEN rebuilt
    ELSE StrideLoop(i + 1, stride, cruise, units,
            rebuilt \o
            << Seg(20, stride, Cue(<<Tok("Stride", i + 1, 4, stride, units)>>)),
               Seg(40, cruise, Cue(<<Tok("Easy between strides", 0, 0, cruise, units)>>)) >>)

\* A stride test that forgets the addStrides option.
stridesWantedAnyway(addStrides, cruiseHalves, speeds) ==
    cruiseHalves >= 2 * (4 * (20 + 40)) /\ Len(speeds) >= 3

\* addStrides && cruiseSecs >= 4 * (20 + 40) && speeds.length >= 3, the
\* cruise given in half seconds.
stridesWanted(addStrides, cruiseHalves, speeds) ==
    addStrides /\ cruiseHalves >= 2 * (4 * (20 + 40)) /\ Len(speeds) >= 3

makeSteady(prof, opts) ==
    LET speeds == sortSpeeds(prof.speeds)
        totalMins == OrDefault(opts.totalMins, 3600)
        intensity == OrDefault(opts.intensity, 65)
        addStrides == IF opts.addStrides.def THEN opts.addStrides.val ELSE TRUE
        warmQ == quantizeDown(speeds, WarmTarget(speeds))
        cruiseQ == quantizeDown(speeds, IntensityTarget(speeds, intensity, MinOf(speeds)))
        warm == warmQ.value
        cruise == cruiseQ.value
        totalSecs == Max2(0, RoundHalves(totalMins))
        \* warmSecs, coolSecs and cruiseSecs in half seconds
        warmHalves == Min2(totalSecs, 2 * (5 * 60))
        coolHalves == warmHalves
        cruiseHalves == Max2(0, 2 * totalSecs - warmHalves - coolHalves)
        segments ==
            << Seg(RoundHalves(warmHalves), warm,
                   Cue(<<Tok("Warm-up", 0, 0, warm, prof.units)>>)),
               Seg(RoundHalves(cruiseHalves), cruise,
                   Cue(<<Tok("Cruise", 0, 0, cruise, prof.units)>>)),
               Seg(RoundHalves(coolHalves), warm,
                   Cue(<<Tok("Cool-down", 0, 0, warm, prof.units)>>)) >>
        strideQ == quantizeDown(speeds, IntensityTarget(speeds, 90, MinOf(speeds)))
        cruiseSeg == segments[2]
        preCruise == Max2(0, cruiseSeg.secs - (4 * 20 + 4 * 40))
        rebuilt ==
            StrideLoop(0, strideQ.value, cruiseSeg.speed, prof.units,
                <<segments[1]>> \o
                (IF preCruise > 0
                 THEN <<Seg(preCruise, cruiseSeg.speed, cruiseSeg.cue)>>
                 ELSE <<>>))
            \o <<segments[3]>>
    IN  IF warmQ.threw \/ cruiseQ.threw THEN Thrown
        ELSE IF stridesWanted(addStrides, cruiseHalves, speeds)
             THEN IF strideQ.threw THEN Thrown
                  ELSE finalizeWorkout(prof, "Steady", rebuilt)
             ELSE finalizeWorkout(prof, "Steady", segments)

\* A filter that keeps every speed up to top, those below warm too.
RECURSIVE FilterRangeFromBottom(_, _, _)
FilterRangeFromBottom(speeds, warm, top) ==
    IF Len(speeds) = 0 THEN <<>>
    ELSE (IF speeds[1] <= top THEN <<speeds[1]>> ELSE <<>>)
         \o FilterRangeFromBottom(Tail(speeds), warm, top)

\* speeds.filter((speed) => speed >= warm && speed <= top)
RECURSIVE FilterRange(_, _, _)
FilterRange(speeds, warm, top) ==
    IF Len(speeds) = 0 THEN <<>>
    ELSE (IF speeds[1] >= warm /\ speeds[1] <= top THEN <<speeds[1]>> ELSE <<>>)
         \o FilterRange(Tail(speeds), warm, top)

\* A ladder loop that samples the usable speeds from the top down.
RECURSIVE LadderLoopDescending(_, _, _, _, _)
LadderLoopDescending(i, stepCount, usableSpeeds, warm, ladder) ==
    IF ~(i < stepCount) THEN ladder
    ELSE IF Len(usableSpeeds) = 0
         THEN LadderLoopDescending(i + 1, stepCount, usableSpeeds, warm,
                                   Append(ladder, warm))
         ELSE LET idx == IF stepCount = 1 THEN Len(usableSpeeds) - 1
                         ELSE RoundRatio(i * (Len(usableSpeeds) - 1), stepCount - 1)
              IN  LadderLoopDescending(i + 1, stepCount, usableSpeeds, warm,
                                       Append(ladder, usableSpeeds[Len(usableSpeeds) - idx]))

\* The ladder loop of makeProgression from i on.
RECURSIVE LadderLoop(_, _, _, _, _)
LadderLoop(i, stepCount, usableSpeeds, warm, ladder) ==
    IF ~(i < stepCount) THEN ladder
    ELSE IF Len(usableSpeeds) = 0
         THEN LadderLoop(i + 1, stepCount, usableSpeeds, warm, Append(ladder, warm))
         ELSE LET idx == IF stepCount = 1 THEN Len(usableSpeeds) - 1
                         ELSE RoundRatio(i * (Len(usableSpeeds) - 1), stepCount - 1)
              IN  LadderLoop(i + 1, stepCount, usableSpeeds, warm,
                             Append(ladder, usableSpeeds[idx + 1]))

\* ladder.forEach from index on (index counts from 0), with the remainder left.
RECURSIVE StepLoop(_, _, _, _, _, _, _)
StepLoop(index, ladder, stepCount, baseStepSecs, remainder, units, segments) ==
    IF ~(index < Len(ladder)) THEN segments
    ELSE LET speed == ladder[index + 1]
             secs == IF remainder > 0 THEN baseStepSecs + 1 ELSE baseStepSecs
         IN  StepLoop(index + 1, ladder, stepCount, baseStepSecs,
                      IF remainder > 0 THEN remainder - 1 ELSE remainder, units,
                      Append(segments,
                             Seg(secs, speed,
                                 Cue(<<Tok("Step", index + 1, stepCount, speed, units)>>))))

makeProgression(prof, opts) ==
    LET speeds == sortSpeeds(prof.speeds)
        totalMins == OrDefault(opts.totalMins, 3600)
        steps == OrDefault(opts.steps, 4)
        topIntensity == OrDefault(opts.topIntensity, 80)
        warmQ == quantizeDown(speeds, WarmTarget(speeds))
        warm == warmQ.value
        topQ == quantizeDown(speeds, IntensityTarget(speeds, topIntensity, warm))
        top == topQ.value
        stepCount == Max2(1, steps)
        usableSpeeds == FilterRange(speeds, warm, top)
        ladder == LadderLoop(0, stepCount, usableSpeeds, warm, <<>>)
        totalSecs == Max2(0, RoundHalves(totalMins))
        warmHalves == Min2(totalSecs, 2 * (5 * 60))
        coolHalves == warmHalves
        \* totalSecs - warmSecs - coolSecs is a whole number of seconds
        workSecs == Max2(0, (2 * totalSecs - warmHalves - coolHalves) \div 2)
        baseStepSecs == IF stepCount # 0 THEN workSecs \div stepCount ELSE 0
        remainder == workSecs - baseStepSecs * stepCount
        segments ==
            StepLoop(0, ladder, stepCount, baseStepSecs, remainder, prof.units,
                <<Seg(RoundHalves(warmHalves), warm,
                      Cue(<<Tok("Warm-up", 0, 0, warm, prof.units)>>))>>)
            \o <<Seg(RoundHalves(coolHalves), warm,
                     Cue(<<Tok("Cool-down", 0, 0, warm, prof.units)>>))>>
    IN  IF warmQ.threw \/ topQ.threw THEN Thrown
        ELSE finalizeWorkout(prof, "Progression", segments)

-----------------------------------------------------------------------------
(* The callers' inputs *)

\* All sequences over S of length 0..n.
SeqsUpTo(S, n) == UNION {[1..k -> S] : k \in 0..n}

Ascending(l) == \A i \in 1..(Len(l) - 1) : l[i] <= l[i + 1]
Reverse(l) == [i \in 1..Len(l) |-> l[Len(l) + 1 - i]]

SpeedValues == {20, 40, 60}
\* profile.speeds as the caller gives it: possibly empty, with duplicates, and
\* in ascending order or not (the lists out of order are the descending ones).
SpeedLists ==
    LET asc == {l \in SeqsUpTo(SpeedValues, MaxLen) : Ascending(l)}
    IN  asc \cup {Reverse(l) : l \in asc}
\* undefined, or a non-negative limit: none, one step of the speed grid
RampLimits == {None, Some(0), Some(20)}
MinSegmentSecs == {None, Some(30), Some(120), Some(1000)}

Profiles ==
    [name : {"Test Device"}, units : {"mph"}, speeds : SpeedLists,
     minSegmentSec : MinSegmentSecs, rampLimitPerChange : RampLimits]

DefaultIntervalOpts ==
    [warmupMins |-> None, cooldownMins |-> None, repeats |-> None, hardSecs |-> None,
     easySecs |-> None, hardIntensity |-> None, easyIntensity |-> None]

\* Durations and counts are non-negative, repeats and steps whole numbers.
IntervalOpts ==
    { [warmupMins |-> w, cooldownMins |-> c, repeats |-> Some(r), hardSecs |-> h,
       easySecs |-> e, hardIntensity |-> i, easyIntensity |-> i] :
        w \in {Some(0), Some(61)}, c \in {Some(0), Some(120)}, r \in 0..MaxRepeats,
        h \in {Some(60), Some(150)}, e \in {Some(0), Some(30)},
        i \in {None, Some(100)} }
    \cup {DefaultIntervalOpts}

TotalMins == {None, Some(0), Some(601), Some(1202), Some(1678), Some(1680)}

SteadyOpts ==
    [totalMins : TotalMins,
     intensity : {None, Some(70), Some(100)},
     addStrides : {None, Some(FALSE)}]

ProgressionOpts ==
    [totalMins : TotalMins,
     steps : {None} \cup {Some(n) : n \in 0..MaxSteps},
     topIntensity : {None, Some(35), Some(100)}]

\* Targets below, between, on and above the speeds of the grid.
Targets == {10 * k : k \in 0..8}

-----------------------------------------------------------------------------
(* The calls *)

NoCall == [op |-> "none"]

\* The generator keeps nothing between calls: a call starts from the caller
\* holding a profile and no result (status "idle"), and ends with the result
\* in the caller's hands.  The state after a builder call that produced r:
BuilderCalled(op, opts, r) ==
    /\ call' = [op |-> op, opts |-> opts]
    /\ status' = IF r.threw THEN "threw" ELSE "returned"
    /\ workout' = r.workout
    /\ raw' = r.raw
    /\ constrained' = IF r.threw THEN <<>> ELSE constrainStage(profile, r.raw).segments
    /\ safeSegments' = r.workout.segments
    /\ value' = 0
    /\ lines' = <<>>
    /\ UNCHANGED <<profile, runner>>

MakeIntervals ==
    /\ status = "idle"
    /\ \E opts \in IntervalOpts :
        BuilderCalled("makeIntervals", opts, makeIntervals(profile, opts))

MakeSteady ==
    /\ status = "idle"
    /\ \E opts \in SteadyOpts :
        BuilderCalled("makeSteady", opts, makeSteady(profile, opts))

MakeProgression ==
    /\ status = "idle"
    /\ \E opts \in ProgressionOpts :
        BuilderCalled("makeProgression", opts, makeProgression(profile, opts))

\* quantizeDown called on its own, with the device's speeds in ascending order
\* (what every caller in the repository passes) and any target.
QuantizeDown ==
    /\ status = "idle"
    /\ \E target \in Targets :
        LET allowed == sortSpeeds(profile.speeds)
            q == quantizeDown(allowed, target)
        IN  /\ call' = [op |-> "quantizeDown", allowed |-> allowed, target |-> target]
            /\ status' = IF q.threw THEN "threw" ELSE "returned"
            /\ value' = q.value
            /\ UNCHANGED <<profile, raw, constrained, safeSegments, workout, lines, runner>>

\* The caller is done with the result and may call again.
Release ==
    /\ status # "idle"
    /\ call' = NoCall
    /\ raw' = <<>>
    /\ constrained' = <<>>
    /\ safeSegments' = <<>>
    /\ status' = "idle"
    /\ workout' = NoWorkout
    /\ value' = 0
    /\ lines' = <<>>
    /\ UNCHANGED <<profile, runner>>

\* The playback screen as it is mounted: the initial values of its state and
\* refs (a ref and the state it mirrors are written together, so each pair is
\* one field), no interval, nothing spoken, no timer callback run.
Mounted ==
    [status |-> "idle", segmentIndex |-> 0, segmentElapsed |-> 0,
     totalElapsed |-> 0, preEndAnnounced |-> FALSE, completionSpoken |-> FALSE,
     interval |-> "cleared", spoken |-> <<>>, ticks |-> 0]

\* The caller holds a profile and no result.
Idle ==
    /\ call = NoCall
    /\ raw = <<>>
    /\ constrained = <<>>
    /\ safeSegments = <<>>
    /\ status = "idle"
    /\ workout = NoWorkout
    /\ value = 0
    /\ lines = <<>>
    /\ runner = Mounted

Init == profile \in Profiles /\ Idle

Next == MakeIntervals \/ MakeSteady \/ MakeProgression \/ QuantizeDown \/ Release

Spec == Init /\ [][Next]_vars

-----------------------------------------------------------------------------
(* applySafety on its own: any raw list, not only the builders' *)

MaxRawLen == 3       \* longest raw list handed to applySafety

SafetySpeedLists ==
    {<<>>, <<40>>, <<20, 60>>, <<60, 20>>, <<20, 40, 60>>, <<20, 20, 40>>}

\* The ramp limit is any number here: with a negative one no speed is within
\* the limit of the previous one.
SafetyProfiles ==
    [name : {"Test Device"}, units : {"mph"}, speeds : SafetySpeedLists,
     minSegmentSec : {None, Some(100)},
     rampLimitPerChange : {None, Some(-20), Some(0), Some(20)}]

CueA == Cue(<<Tok("A", 0, 0, 0, "")>>)
CueB == Cue(<<Tok("B", 0, 0, 0, "")>>)

\* Raw segments: targets below, between and on the allowed speeds, short and
\* long, and at one speed every kind of cue (none, the empty string, another).
RawSegments ==
    {Seg(secs, speed, CueA) : secs \in {30, 150}, speed \in {10, 60}}
    \cup {Seg(30, 50, CueA)}
    \cup {Seg(30, 60, cue) : cue \in {NoCue, Cue(<<>>), CueB}}

RawLists == SeqsUpTo(RawSegments, MaxRawLen)

ApplySafety ==
    /\ status = "idle"
    /\ \E rawSegments \in RawLists :
        LET c == constrainStage(profile, rawSegments)
            r == applySafety(profile, rawSegments)
        IN  /\ call' = [op |-> "applySafety"]
            /\ status' = IF r.threw THEN "threw" ELSE "returned"
            /\ raw' = rawSegments
            /\ constrained' = c.segments
            /\ safeSegments' = r.segments
            /\ UNCHANGED <<profile, workout, value, lines, runner>>

SafetyInit == profile \in SafetyProfiles /\ Idle

SafetyNext == ApplySafety \/ Release

SafetySpec == SafetyInit /\ [][SafetyNext]_vars

(***************************************************************************)
(* applySafety's ramp limiter alone, on finer grids of speeds: profiles    *)
(* without a minimum segment length and with a ramp limit of zero or more, *)
(* raw lists of equally long segments whose targets lie on, between and    *)
(* outside the allowed speeds.                                             *)
(***************************************************************************)
MaxRampLen == 3      \* longest raw list handed to the ramp limiter

RampSpeedLists ==
    {<<20, 40, 60, 80>>, <<20, 40, 100>>, <<80, 20, 60>>, <<20, 20, 60>>}

RampProfiles ==
    [name : {"Test Device"}, units : {"mph"}, speeds : RampSpeedLists,
     minSegmentSec : {None},
     rampLimitPerChange : {None, Some(0), Some(20), Some(40)}]

RampSegments == {Seg(60, speed, CueA) : speed \in {10, 20, 50, 60, 90, 100}}

RampLists == SeqsUpTo(RampSegments, MaxRampLen)

LimitRamp ==
    /\ status = "idle"
    /\ \E rawSegments \in RampLists :
        LET c == constrainStage(profile, rawSegments)
            r == applySafety(profile, rawSegments)
        IN  /\ call' = [op |-> "applySafety"]
            /\ status' = IF r.threw THEN "threw" ELSE "returned"
            /\ raw' = rawSegments
            /\ constrained' = c.segments
            /\ safeSegments' = r.segments
            /\ UNCHANGED <<profile, workout, value, lines, runner>>

RampInit == profile \in RampProfiles /\ Idle

RampNext == LimitRamp \/ Release

RampSpec == RampInit /\ [][RampNext]_vars

(***************************************************************************)
(* makeProgression alone, on longer lists of speeds and longer ladders:    *)
(* profiles without a ramp limit or a minimum segment length, the default  *)
(* total, any number of steps up to MaxRungs.                              *)
(***************************************************************************)
MaxRungs == 5        \* largest steps option asked of the ladder

LadderSpeedLists ==
    {<<20, 40, 60, 80, 100>>, <<100, 40, 20>>, <<40, 60, 80>>,
     <<20, 20, 40, 40>>, <<20, 100>>, <<60>>}

LadderProfiles ==
    [name : {"Test Device"}, units : {"mph"}, speeds : LadderSpeedLists,
     minSegmentSec : {None}, rampLimitPerChange : {None}]

LadderOpts ==
    [totalMins : {None},
     steps : {None} \cup {Some(n) : n \in 0..MaxRungs},
     topIntensity : {None, Some(35), Some(50), Some(65), Some(100)}]

BuildLadder ==
    /\ status = "idle"
    /\ \E opts \in LadderOpts :
        BuilderCalled("makeProgression", opts, makeProgression(profile, opts))

LadderInit == profile \in LadderProfiles /\ Idle

LadderNext == BuildLadder \/ Release

LadderSpec == LadderInit /\ [][LadderNext]_vars

-----------------------------------------------------------------------------
(* describe *)

\* String(n) for a whole number n >= 0: its decimal digits.
RECURSIVE Digits(_)
Digits(n) == IF n < 10 THEN <<n>> ELSE Digits(n \div 10) \o <<n % 10>>

\* String(n).padStart(2, '0')
pad(n) ==
    IF Len(Digits(n)) < 2 THEN <<0>> \o Digits(n) ELSE Digits(n)

\* A line whose minutes start over at 60 (a clock that wraps into hours).
describeLineWrapped(start, elapsed, segment, units) ==
    [ start |-> <<pad((start \div 60) % 60), pad(start % 60)>>,
      end |-> <<pad((elapsed \div 60) % 60), pad(elapsed % 60)>>,
      speed |-> segment.speed,
      units |-> units,
      cue |-> IF Truthy(segment.cue) THEN segment.cue.text ELSE <<>> ]

\* The line the map callback returns for a segment that starts at `start`
\* and ends at `elapsed`: `MM:SS-MM:SS  @ speed units` and the cue, if any.
describeLine(start, elapsed, segment, units) ==
    [ start |-> <<pad(start \div 60), pad(start % 60)>>,
      end |-> <<pad(elapsed \div 60), pad(elapsed % 60)>>,
      speed |-> segment.speed,
      units |-> units,
      cue |-> IF Truthy(segment.cue) THEN segment.cue.text ELSE <<>> ]

\* workout.segments.map(...) from segment i on, `elapsed` seconds in.
RECURSIVE DescribeLoop(_, _, _, _, _)
DescribeLoop(segments, units, i, elapsed, out) ==
    IF i > Len(segments) THEN out
    ELSE DescribeLoop(segments, units, i + 1, elapsed + segments[i].secs,
            Append(out, describeLine(elapsed, elapsed + segments[i].secs,
                                     segments[i], units)))

\* The text, as the sequence of the lines that join('\n') puts together.
describe(w) == DescribeLoop(w.segments, w.units, 1, 0, <<>>)

MaxSegs == 3         \* longest segment list handed to describe

\* Segments of no duration, below and above a minute, and long enough for
\* the minutes to pass 59 and 99; one without a cue.
DescribeSegments ==
    {Seg(secs, 20, CueA) : secs \in {0, 59, 61, 3480, 6000}}
    \cup {Seg(61, 40, NoCue)}

DescribeWorkouts ==
    { Workout("Test Device", "mph", SumSecs(segs), segs) :
        segs \in SeqsUpTo(DescribeSegments, MaxSegs) }

\* describe called on the workout the caller holds.
Describe ==
    /\ status = "idle"
    /\ call' = [op |-> "describe"]
    /\ status' = "returned"
    /\ lines' = describe(workout)
    /\ UNCHANGED <<profile, raw, constrained, safeSegments, workout, value, runner>>

DescribeInit ==
    /\ profile \in {p \in SafetyProfiles : p.speeds = <<20, 40, 60>>}
    /\ call = NoCall
    /\ raw = <<>>
    /\ constrained = <<>>
    /\ safeSegments = <<>>
    /\ status = "idle"
    /\ workout \in DescribeWorkouts
    /\ value = 0
    /\ lines = <<>>
    /\ runner = Mounted

DescribeNext == Describe \/ Release

DescribeSpec == DescribeInit /\ [][DescribeNext]_vars

-----------------------------------------------------------------------------
(* The playback screen *)

\* segmentLabel: the text shown and spoken for a segment, its cue when it has
\* a non-empty one and `Speed ${segment.speed} ${units}` otherwise.
segmentLabel(segment, units) ==
    IF Truthy(segment.cue) THEN segment.cue
    ELSE Cue(<<Tok("Speed", 0, 0, segment.speed, units)>>)

\* What the screen speaks: the label of segment index (announceSegment), the
\* five-second warning given in segment index (announcePreEnd), the
\* completion message.  Indices count from 0 as in the source.
SegmentSpoken(index) == <<"segment", index>>
PreEndSpoken(index) == <<"preEnd", index>>
CompleteSpoken == <<"complete", 0>>

\* resetState: everything back to the start, the interval aside (it belongs
\* to the tick effect).
resetState(r) ==
    [r EXCEPT !.status = "idle", !.segmentIndex = 0, !.segmentElapsed = 0,
              !.totalElapsed = 0, !.preEndAnnounced = FALSE,
              !.completionSpoken = FALSE]

\* The interval of the tick effect.  The effect runs after the render that
\* follows a change of status: until it has run, the interval created for
\* the previous status is still there.
\*   "cleared"  there is no interval
\*   "armed"    the interval created while running
\*   "due"      the status is no longer running, the old interval is not yet
\*              cleared and its next callback may come first
\*   "spent"    as "due", the callback having just run: the cleanup comes
\*              before the next one
\* The effect has run when the interval is the one the status asks for.
Flushed(r) ==
    IF r.status = "running" THEN r.interval = "armed" ELSE r.interval = "cleared"

\* The interval after a handler took the status away from running.
Overtaken(interval) == IF interval = "armed" THEN "due" ELSE interval

\* A total that counts every callback, without the cap at totalSecs.
newTotalElapsedUncapped(totalSecs, totalElapsed) == totalElapsed + 1

\* Math.min(activeWorkout.totalSecs, totalElapsedRef.current + 1)
newTotalElapsed(totalSecs, totalElapsed) == Min2(totalSecs, totalElapsed + 1)

\* The interval's callback on screen state r and workout w: the state it
\* leaves.  It reads the refs, never the status.
tick(r, w) ==
    LET activeSegment == w.segments[r.segmentIndex + 1]
        newSegmentElapsed == r.segmentElapsed + 1
        remaining == activeSegment.secs - newSegmentElapsed
        warn == ~r.preEndAnnounced /\ remaining = 5
        warned == IF warn THEN Append(r.spoken, PreEndSpoken(r.segmentIndex))
                  ELSE r.spoken
        nextIndex == r.segmentIndex + 1
    IN  IF r.segmentIndex >= Len(w.segments) THEN r
        ELSE IF newSegmentElapsed >= activeSegment.secs
        THEN IF nextIndex >= Len(w.segments)
             THEN [r EXCEPT !.status = "finished",
                            !.segmentElapsed = activeSegment.secs,
                            !.totalElapsed = w.totalSecs,
                            !.preEndAnnounced = FALSE,
                            !.spoken = IF r.completionSpoken THEN warned
                                       ELSE Append(warned, CompleteSpoken),
                            !.completionSpoken = TRUE]
             ELSE [r EXCEPT !.segmentIndex = nextIndex,
                            !.segmentElapsed = 0,
                            !.totalElapsed = newTotalElapsed(w.totalSecs, r.totalElapsed),
                            !.preEndAnnounced = FALSE,
                            !.spoken = Append(warned, SegmentSpoken(nextIndex))]
        ELSE [r EXCEPT !.segmentElapsed = newSegmentElapsed,
                       !.totalElapsed = newTotalElapsed(w.totalSecs, r.totalElapsed),
                       !.preEndAnnounced = r.preEndAnnounced \/ warn,
                       !.spoken = warned]

\* The session's workout: plans of up to MaxPlaySegs segments, of no length,
\* of one and two seconds, and long enough for the five-second warning.
MaxPlaySegs == 2     \* longest plan played

PlaySegments == {Seg(secs, 40, NoCue) : secs \in {0, 1, 2, 7}}

PlayWorkouts ==
    {Workout("Plan", "mph", SumSecs(segs), segs) :
        segs \in SeqsUpTo(PlaySegments, MaxPlaySegs) \ {<<>>}}

\* The rest of the state stays as it is while the screen plays.
Playing == UNCHANGED <<profile, call, raw, constrained, safeSegments, status,
                       workout, value, lines>>

\* handleStart, behind the Start button shown while idle.  `spoken` and
\* `ticks` record what was spoken and how many callbacks ran since Start.
Start ==
    /\ runner.status = "idle"
    /\ Flushed(runner)
    /\ runner' = [resetState(runner) EXCEPT !.status = "running",
                                             !.spoken = <<SegmentSpoken(0)>>,
                                             !.ticks = 0]
    /\ Playing

\* handlePause, behind the Pause button shown while running.
Pause ==
    /\ runner.status = "running"
    /\ Flushed(runner)
    /\ runner' = [runner EXCEPT !.status = "paused",
                                 !.interval = Overtaken(runner.interval)]
    /\ Playing

\* handleResume, behind the Resume button shown while paused.
Resume ==
    /\ runner.status = "paused"
    /\ Flushed(runner)
    /\ runner' = [runner EXCEPT !.status = "running"]
    /\ Playing

\* handleReset, behind Reset (running, paused) and Restart (finished).
Reset ==
    /\ runner.status \in {"running", "paused", "finished"}
    /\ Flushed(runner)
    /\ runner' = [resetState(runner) EXCEPT !.interval = Overtaken(runner.interval)]
    /\ Playing

\* The tick effect: the cleanup of the interval of the previous status, and
\* a new interval when the status is running.
IntervalEffect ==
    /\ ~Flushed(runner)
    /\ runner' = [runner EXCEPT !.interval = IF runner.status = "running"
                                              THEN "armed" ELSE "cleared"]
    /\ Playing

\* The interval fires.
Tick ==
    /\ runner.interval \in {"armed", "due"}
    /\ LET after == tick(runner, workout)
       IN  runner' = [after EXCEPT !.ticks = runner.ticks + 1,
                                   !.interval = IF runner.interval = "armed"
                                                   /\ after.status = "running"
                                                THEN "armed" ELSE "spent"]
    /\ Playing

RunnerInit ==
    /\ profile \in {p \in SafetyProfiles : p.speeds = <<20, 40, 60>>}
    /\ call = NoCall
    /\ raw = <<>>
    /\ constrained = <<>>
    /\ safeSegments = <<>>
    /\ status = "idle"
    /\ workout \in PlayWorkouts
    /\ value = 0
    /\ lines = <<>>
    /\ runner = Mounted

RunnerNext == Start \/ Pause \/ Resume \/ Reset \/ IntervalEffect \/ Tick

RunnerSpec == RunnerInit /\ [][RunnerNext]_vars

\* A run left alone: Start, then only the interval and its effect.
PlayNext == Start \/ IntervalEffect \/ Tick

PlaySpec == RunnerInit /\ [][PlayNext]_vars

-----------------------------------------------------------------------------
(* Properties *)

Range(seq) == {seq[i] : i \in DOMAIN seq}
Builders == {"makeIntervals", "makeSteady", "makeProgression"}
BuilderReturned == status = "returned" /\ call.op \in Builders
\* Some segment left the ramp limiter at another speed than its raw one.
SomeClamp == \E i \in DOMAIN constrained : constrained[i].speed # raw[i].speed
\* The merge stage joined at least two segments.
SomeMerge == Len(workout.segments) < Len(constrained)

\* C1: every segment of a workout a builder returns has a speed that is a
\* member of profile.speeds, whatever the options, the ramp limit and the
\* minimum segment duration are.
C1_SpeedsAllowed ==
    BuilderReturned =>
        \A i \in DOMAIN workout.segments :
            workout.segments[i].speed \in Range(profile.speeds)

C1_Witness ==
    /\ BuilderReturned
    /\ SomeClamp
    /\ SomeMerge
    /\ ~Ascending(profile.speeds)

\* C2: with rampLimitPerChange = r defined, adjacent segments of the returned
\* (post-merge) list differ in speed by at most r, or have the same speed.
C2_RampRespected ==
    (BuilderReturned /\ profile.rampLimitPerChange.def) =>
        \A i \in 2..Len(workout.segments) :
            \/ Abs(workout.segments[i].speed - workout.segments[i - 1].speed)
                   <= profile.rampLimitPerChange.val
            \/ workout.segments[i].speed = workout.segments[i - 1].speed

C2_Witness ==
    /\ BuilderReturned
    /\ profile.rampLimitPerChange.def
    /\ SomeClamp
    /\ \E i \in 2..Len(workout.segments) :
           workout.segments[i].speed # workout.segments[i - 1].speed

\* The sum of the durations of a segment list, position by position.
SecsUpTo(segs, k) ==
    LET f[i \in 0..k] == IF i = 0 THEN 0 ELSE f[i - 1] + segs[i].secs
    IN  f[k]

\* C3: totalSecs of a returned workout is the sum of the secs of the segments
\* of the returned (post-merge) list.
C3_TotalIsSum ==
    BuilderReturned =>
        workout.totalSecs = SecsUpTo(workout.segments, Len(workout.segments))

C3_Witness ==
    /\ BuilderReturned
    /\ SomeMerge
    /\ Len(workout.segments) >= 2
    /\ workout.segments[1].secs > 0

\* C4: with minSegmentSec defined, no two adjacent segments of the returned
\* list have the same speed and both a duration below minSegmentSec.
C4_NoShortSameSpeedPair ==
    (BuilderReturned /\ profile.minSegmentSec.def) =>
        ~ \E i \in 2..Len(workout.segments) :
              /\ workout.segments[i].speed = workout.segments[i - 1].speed
              /\ workout.segments[i].secs < profile.minSegmentSec.val
              /\ workout.segments[i - 1].secs < profile.minSegmentSec.val

\* A merge happened, and two neighbours of the same speed were left apart.
C4_Witness ==
    /\ BuilderReturned
    /\ profile.minSegmentSec.def
    /\ SomeMerge
    /\ \E i \in 2..Len(workout.segments) :
           workout.segments[i].speed = workout.segments[i - 1].speed

QuantizeReturned == status = "returned" /\ call.op = "quantizeDown"
MinOfSet(S) == CHOOSE m \in S : \A v \in S : m <= v
MaxOfSet(S) == CHOOSE m \in S : \A v \in S : m >= v

\* C5: on a non-empty ascending list, quantizeDown returns a member of the
\* list: the largest member <= target when the smallest member is <= target,
\* and the smallest member when the target is below it.
C5_QuantizeIsFloor ==
    (call.op = "quantizeDown" /\ Len(call.allowed) > 0) =>
        /\ status = "returned"
        /\ value \in Range(call.allowed)
        /\ LET S == Range(call.allowed)
           IN  IF MinOfSet(S) <= call.target
               THEN value = MaxOfSet({v \in S : v <= call.target})
               ELSE value = MinOfSet(S)

\* A target strictly between two members of a list with a repeated member.
C5_Witness ==
    /\ QuantizeReturned
    /\ value < call.target
    /\ \E v \in Range(call.allowed) : v > call.target
    /\ Cardinality(Range(call.allowed)) < Len(call.allowed)

\* C6: quantizeDown is idempotent and monotonic on a fixed non-empty ascending
\* list: an allowed target is returned unchanged, quantizing the result again
\* returns it, and a larger target never gets a smaller result.
C6_IdempotentMonotonic ==
    QuantizeReturned =>
        /\ call.target \in Range(call.allowed) => value = call.target
        /\ quantizeDown(call.allowed, value) = Value(value)
        /\ \A t \in Targets :
               /\ t <= call.target => quantizeDown(call.allowed, t).value <= value
               /\ t >= call.target => quantizeDown(call.allowed, t).value >= value

\* An allowed target that is not the first of the list.
C6_Witness ==
    /\ QuantizeReturned
    /\ call.target \in Range(call.allowed)
    /\ call.target # call.allowed[1]
    /\ \E t \in Targets : t < call.target /\ quantizeDown(call.allowed, t).value < value

\* C7: quantizeDown on an empty list fails with an error, and so does every
\* builder on a profile whose speeds list is empty, for every choice of
\* options, with no workout returned.
C7_EmptySpeedsThrows ==
    /\ (call.op = "quantizeDown" /\ Len(call.allowed) = 0) =>
           status = "threw"
    /\ (call.op \in Builders /\ Len(profile.speeds) = 0) =>
           (status = "threw" /\ workout = NoWorkout /\ raw = <<>>)

C7_Witness ==
    /\ call.op \in Builders
    /\ Len(profile.speeds) = 0
    /\ status = "threw"
    /\ profile.rampLimitPerChange.def
    /\ profile.minSegmentSec.def

\* The quantized base of a target: the largest allowed speed <= target, or
\* the smallest allowed speed when there is none.
FloorOf(S, target) ==
    IF \E v \in S : v <= target THEN MaxOfSet({v \in S : v <= target})
    ELSE MinOfSet(S)

\* The cue ends in the "(clamped)" marker.
Marked(cue) ==
    /\ cue.def
    /\ Len(cue.text) > 0
    /\ cue.text[Len(cue.text)] \in {ClampedTok, ClampedSuffixTok}

\* C8: after the ramp-limit stage a segment's cue carries a trailing
\* "(clamped)" marker exactly when the speed emitted for it differs from its
\* quantized base speed; the marker is appended to an existing (non-empty)
\* cue, or is the whole cue when there was none; otherwise the cue is kept.
C8_ClampedMarker ==
    (call.op = "applySafety" /\ status = "returned") =>
        \A i \in DOMAIN constrained :
            LET base == FloorOf(Range(profile.speeds), raw[i].speed)
                before == raw[i].cue
                after == constrained[i].cue
            IN  /\ Marked(after) <=> constrained[i].speed # base
                /\ constrained[i].speed # base =>
                       after = IF before.def /\ before.text # <<>>
                               THEN Cue(before.text \o <<ClampedSuffixTok>>)
                               ELSE Cue(<<ClampedTok>>)
                /\ constrained[i].speed = base => after = before

\* Three segments: the first unmarked, the second clamped with no cue of its
\* own (the marker is its whole cue), the third clamped with a cue.
C8_Witness ==
    /\ call.op = "applySafety"
    /\ status = "returned"
    /\ Len(constrained) = 3
    /\ raw[2].cue = NoCue /\ constrained[2].cue = Cue(<<ClampedTok>>)
    /\ raw[3].cue = CueA /\ Marked(constrained[3].cue)
    /\ ~Marked(constrained[1].cue)

\* The durations makeIntervals plans, options resolved against the defaults.
IntervalDurations(opts) ==
    LET w == OrDefault(opts.warmupMins, 600)
        c == OrDefault(opts.cooldownMins, 600)
        n == OrDefault(opts.repeats, 6)
        pairs == [k \in 1..(2 * n) |->
                    IF k % 2 = 1 THEN OrDefault(opts.hardSecs, 90)
                    ELSE OrDefault(opts.easySecs, 90)]
    IN  (IF w > 0 THEN <<RoundHalves(w)>> ELSE <<>>)
        \o pairs
        \o (IF c > 0 THEN <<RoundHalves(c)>> ELSE <<>>)

\* C9: with minSegmentSec undefined makeIntervals returns exactly
\* (warmupMins > 0 ? 1 : 0) + 2 * repeats + (cooldownMins > 0 ? 1 : 0)
\* segments, of durations round(warmupMins * 60), then hardSecs, easySecs
\* repeats times, then round(cooldownMins * 60); the merge stage passes the
\* ramp-limited list through.
C9_IntervalsShape ==
    (call.op = "makeIntervals" /\ status = "returned" /\ ~profile.minSegmentSec.def) =>
        LET w == OrDefault(call.opts.warmupMins, 600)
            c == OrDefault(call.opts.cooldownMins, 600)
            n == OrDefault(call.opts.repeats, 6)
            expected == IntervalDurations(call.opts)
        IN  /\ Len(workout.segments) =
                 (IF w > 0 THEN 1 ELSE 0) + 2 * n + (IF c > 0 THEN 1 ELSE 0)
            /\ Len(expected) = Len(workout.segments)
            /\ \A i \in DOMAIN workout.segments :
                   workout.segments[i].secs = expected[i]
            /\ workout.segments = constrained

\* A rounded warm-up, two repeats, no cool-down, and two neighbours of the
\* same speed left apart.
C9_Witness ==
    /\ call.op = "makeIntervals" /\ status = "returned"
    /\ ~profile.minSegmentSec.def
    /\ profile.rampLimitPerChange.def
    /\ call.opts.warmupMins = Some(61)
    /\ call.opts.repeats = Some(2)
    /\ call.opts.cooldownMins = Some(0)
    /\ Len(workout.segments) = 5
    /\ workout.segments[1].secs = 31
    /\ \E i \in 2..Len(workout.segments) :
           workout.segments[i].speed = workout.segments[i - 1].speed

\* With rampLimitPerChange = 0 and minSegmentSec above every raw duration.
AllCollapse ==
    /\ BuilderReturned
    /\ profile.rampLimitPerChange = Some(0)
    /\ profile.minSegmentSec.def
    /\ \A i \in DOMAIN raw : raw[i].secs < profile.minSegmentSec.val

OneSegmentOfAll ==
    /\ Len(workout.segments) = 1
    /\ workout.segments[1].speed = FloorOf(Range(profile.speeds), raw[1].speed)
    /\ workout.segments[1].secs = SecsUpTo(raw, Len(raw))

\* C10 as stated: with rampLimitPerChange = 0 and minSegmentSec greater than
\* the duration of every raw segment, a builder returns exactly one segment,
\* at the quantized speed of the first raw segment, whose secs is the sum of
\* all raw durations.
C10_Original == AllCollapse => OneSegmentOfAll

\* C10 as amended: the same, for a raw plan of at least one segment; an empty
\* raw plan (makeIntervals with no warm-up, no repeats and no cool-down)
\* gives a workout of no segments.
C10_CollapseToOne ==
    AllCollapse =>
        IF Len(raw) > 0 THEN OneSegmentOfAll
        ELSE workout.segments = <<>> /\ workout.totalSecs = 0

\* Raw segments of different speeds whose durations add up past
\* minSegmentSec before the last one is merged.
C10_Witness ==
    /\ AllCollapse
    /\ Len(raw) >= 4
    /\ \E i \in DOMAIN raw : raw[i].speed # raw[1].speed
    /\ Len(workout.segments) = 1
    /\ workout.segments[1].secs > profile.minSegmentSec.val

-----------------------------------------------------------------------------
(* makeSteady *)

SteadyReturned == call.op = "makeSteady" /\ status = "returned"

\* The options of the call, resolved against the defaults of makeSteady.
SteadyAddStrides == IF call.opts.addStrides.def THEN call.opts.addStrides.val ELSE TRUE
SteadyIntensity == OrDefault(call.opts.intensity, 65)
\* The requested total, in seconds, and the cruise duration, in half seconds.
RequestedTotal == Max2(0, RoundHalves(OrDefault(call.opts.totalMins, 3600)))
CruiseHalves == Max2(0, 2 * RequestedTotal - 2 * Min2(RequestedTotal, 600))

\* The cruise and stride speeds: the quantized bases of max * intensity and
\* of max * 0.9, each held between the smallest and the largest speed.
CruiseSpeed ==
    LET S == Range(profile.speeds)
    IN  FloorOf(S, clamp((MaxOfSet(S) * SteadyIntensity) \div 100, MinOfSet(S), MaxOfSet(S)))
StrideSpeed ==
    LET S == Range(profile.speeds)
    IN  FloorOf(S, clamp((MaxOfSet(S) * 90) \div 100, MinOfSet(S), MaxOfSet(S)))

\* The segments whose cue starts with "Stride".
StrideSegs(segs) ==
    {i \in DOMAIN segs : Truthy(segs[i].cue) /\ segs[i].cue.text[1][1] = "Stride"}

\* addStrides true, a cruise of at least 240 seconds, at least 3 speeds listed.
StridesDue ==
    /\ SteadyReturned
    /\ SteadyAddStrides
    /\ CruiseHalves >= 2 * 240
    /\ Len(profile.speeds) >= 3

\* C11 as stated: whenever makeSteady is called with addStrides true, a cruise
\* of at least 240 seconds and a profile of at least 3 speeds, the returned
\* workout has exactly four stride segments of 20 seconds each, at a speed
\* strictly greater than the cruise speed (stated for 3 speeds that differ,
\* the reading under which the fewest profiles are covered).
C11_Original ==
    (StridesDue /\ Cardinality(Range(profile.speeds)) >= 3) =>
        LET st == StrideSegs(workout.segments)
        IN  /\ Cardinality(st) = 4
            /\ \A i \in st : /\ workout.segments[i].secs = 20
                              /\ workout.segments[i].speed > CruiseSpeed

\* C11 as amended: in that case the raw plan has exactly four stride segments
\* of 20 seconds each, all at the quantized base of max * 0.9, which is at
\* least the cruise speed when the intensity is at most 0.9; with no ramp
\* limit and no minimum segment duration the returned workout is the raw plan.
C11_StridesInPlan ==
    StridesDue =>
        LET st == StrideSegs(raw)
        IN  /\ Cardinality(st) = 4
            /\ \A i \in st : raw[i].secs = 20 /\ raw[i].speed = StrideSpeed
            /\ SteadyIntensity <= 90 => StrideSpeed >= CruiseSpeed
            /\ (~profile.rampLimitPerChange.def /\ ~profile.minSegmentSec.def) =>
                   workout.segments = raw

\* Strides above the cruise speed, after a stretch of plain cruise, returned
\* as planned from a speeds list given out of order.
C11_Witness ==
    /\ StridesDue
    /\ StrideSpeed > CruiseSpeed
    /\ ~profile.rampLimitPerChange.def /\ ~profile.minSegmentSec.def
    /\ Len(workout.segments) = 11
    /\ Cardinality(StrideSegs(workout.segments)) = 4
    /\ ~Ascending(profile.speeds)

\* C12: makeSteady splices stride segments into the cruise if and only if
\* addStrides is true, the cruise lasts at least 4 * (20 + 40) = 240 seconds
\* and the profile has at least 3 distinct speeds, a speed listed more than
\* once counting once.
C12_StridesIffDistinct ==
    SteadyReturned =>
        (StrideSegs(raw) # {} <=>
            /\ SteadyAddStrides
            /\ CruiseHalves >= 2 * (4 * (20 + 40))
            /\ Cardinality(Range(profile.speeds)) >= 3)

\* The raw plan without strides: warm-up, cruise, cool-down.
ThreeSegmentPlan ==
    /\ Len(raw) = 3
    /\ raw[1].cue.text[1][1] = "Warm-up"
    /\ raw[2].cue.text[1][1] = "Cruise"
    /\ raw[3].cue.text[1][1] = "Cool-down"

\* The same three segments returned, each with the cue it was planned with
\* (a clamped one with the marker after it).
ThreeSegmentsReturned ==
    /\ Len(workout.segments) = 3
    /\ workout.segments[1].cue.text[1][1] = "Warm-up"
    /\ workout.segments[2].cue.text[1][1] = "Cruise"
    /\ workout.segments[3].cue.text[1][1] = "Cool-down"

\* C13 as stated: when addStrides is false or the stride prerequisites fail,
\* makeSteady on a profile with speeds raises no error and returns a workout
\* of exactly three segments: warm-up, cruise, cool-down, in that order
\* (stated for totals that leave none of the three empty).
C13_Original ==
    (/\ call.op = "makeSteady"
     /\ Len(profile.speeds) > 0
     /\ RequestedTotal > 600
     /\ ~(SteadyAddStrides /\ CruiseHalves >= 2 * 240 /\ Len(profile.speeds) >= 3)) =>
        /\ status = "returned"
        /\ ThreeSegmentsReturned

\* C13 as amended: in that case makeSteady raises no error and plans exactly
\* three raw segments, warm-up, cruise, cool-down, in that order; the workout
\* returned has these three segments when minSegmentSec is undefined, and at
\* most three otherwise (neighbours emitted at the same speed may be merged),
\* of the same total duration.
C13_ThreeSegmentPlan ==
    (/\ call.op = "makeSteady"
     /\ Len(profile.speeds) > 0
     /\ ~(SteadyAddStrides /\ CruiseHalves >= 2 * 240 /\ Len(profile.speeds) >= 3)) =>
        /\ status = "returned"
        /\ ThreeSegmentPlan
        /\ ~profile.minSegmentSec.def => ThreeSegmentsReturned
        /\ Len(workout.segments) \in 1..3
        /\ workout.totalSecs = SecsUpTo(raw, 3)

\* Strides asked for and the cruise long enough, but only two speeds listed;
\* three segments come back although a minimum segment duration is set.
C13_Witness ==
    /\ SteadyReturned
    /\ SteadyAddStrides
    /\ CruiseHalves >= 2 * 240
    /\ Len(profile.speeds) = 2
    /\ profile.minSegmentSec.def
    /\ profile.rampLimitPerChange.def
    /\ ThreeSegmentsReturned

\* C14: for every totalMins >= 0, with or without strides, totalSecs of the
\* workout makeSteady returns is the requested total round(totalMins * 60):
\* warm-up and cool-down take min(total / 2, 300) seconds each and the cruise
\* the remainder, never negative, so that a total of at most 600 seconds is
\* split evenly between warm-up and cool-down.
C14_SteadyTotalExact ==
    SteadyReturned =>
        /\ workout.totalSecs = RequestedTotal
        /\ 2 * raw[1].secs = Min2(RequestedTotal, 600)
        /\ 2 * raw[Len(raw)].secs = Min2(RequestedTotal, 600)
        /\ SecsUpTo(raw, Len(raw)) - raw[1].secs - raw[Len(raw)].secs
               = Max2(0, RequestedTotal - 600)

-----------------------------------------------------------------------------
(* makeProgression *)

ProgressionReturned == call.op = "makeProgression" /\ status = "returned"
ProgressionSteps == OrDefault(call.opts.steps, 4)

\* C15: for every totalMins >= 0 and steps >= 1, makeProgression gives each
\* ladder step floor(work / steps) seconds, and one second more to the
\* earliest (work mod steps) steps, where work = total - warm-up - cool-down;
\* the step durations, the warm-up and the cool-down add up to totalSecs,
\* which is the requested total round(totalMins * 60) exactly.
C15_ProgressionTiming ==
    (ProgressionReturned /\ ProgressionSteps >= 1) =>
        LET n == ProgressionSteps
            work == RequestedTotal - raw[1].secs - raw[Len(raw)].secs
        IN  /\ Len(raw) = n + 2
            /\ \A k \in 1..n :
                   raw[k + 1].secs = (work \div n) + (IF k <= work % n THEN 1 ELSE 0)
            /\ SecsUpTo(raw, Len(raw)) = workout.totalSecs
            /\ workout.totalSecs = RequestedTotal

\* The cue has a piece of this kind ("Step", "Warm-up", ...).
HasTok(cue, kind) == \E k \in DOMAIN cue.text : cue.text[k][1] = kind

\* The segments that are, or have taken in, a ladder step.
StepSegs(segs) == {i \in DOMAIN segs : HasTok(segs[i].cue, "Step")}

NonDecreasingOn(segs, I) ==
    \A i, j \in I : i < j => segs[i].speed <= segs[j].speed

\* C16: in every workout makeProgression returns, the speeds of the ladder
\* steps (the segments between warm-up and cool-down), in time order, never
\* decrease: in the raw ladder, after quantizing and ramp limiting, and in
\* the returned list after merging.
C16_LadderNonDecreasing ==
    ProgressionReturned =>
        /\ NonDecreasingOn(raw, 2..(Len(raw) - 1))
        /\ NonDecreasingOn(constrained, 2..(Len(constrained) - 1))
        /\ NonDecreasingOn(workout.segments, StepSegs(workout.segments))

\* A step held back by the ramp limiter, a merge, and still two step
\* segments of different speeds in the returned list.
C16_Witness ==
    /\ ProgressionReturned
    /\ \E i \in 2..(Len(constrained) - 1) : constrained[i].speed # raw[i].speed
    /\ SomeMerge
    /\ \E i, j \in StepSegs(workout.segments) :
           workout.segments[i].speed < workout.segments[j].speed

\* The speed of the last ladder step as the ramp limiter emitted it.
LastStepSpeed == constrained[Len(constrained) - 1].speed

\* C17 as stated: in every workout makeProgression returns, the last segment
\* (the cool-down) has the speed of the first segment (the warm-up).
C17_Original ==
    ProgressionReturned =>
        workout.segments[Len(workout.segments)].speed = workout.segments[1].speed

\* C17 as amended: the last segment has the speed of the first when no ramp
\* limit is set or the last ladder step was emitted within the limit of the
\* warm-up speed; otherwise it is emitted above the warm-up speed, at the
\* lowest allowed speed within the limit of the last step, marked (clamped).
C17_CoolDownSpeed ==
    ProgressionReturned =>
        LET first == workout.segments[1]
            last == workout.segments[Len(workout.segments)]
            r == profile.rampLimitPerChange
        IN  IF ~r.def \/ LastStepSpeed - first.speed <= r.val
            THEN last.speed = first.speed
            ELSE /\ last.speed > first.speed
                 /\ last.speed = MinOfSet({v \in Range(profile.speeds) :
                                              Abs(v - LastStepSpeed) <= r.val})
                 /\ Marked(last.cue)

\* A cool-down held one step of the grid below the last ladder step.
C17_Witness ==
    /\ ProgressionReturned
    /\ profile.rampLimitPerChange.def
    /\ LastStepSpeed - workout.segments[1].speed > profile.rampLimitPerChange.val
    /\ workout.segments[Len(workout.segments)].speed < LastStepSpeed
    /\ profile.minSegmentSec.def

-----------------------------------------------------------------------------
(* All builders *)

\* C18: every segment of every workout a builder returns has a positive
\* whole number of seconds; no segment of zero duration appears, whatever
\* the options, their durations and totals being non-negative.
C18_NoEmptySegment ==
    BuilderReturned =>
        \A i \in DOMAIN workout.segments : workout.segments[i].secs > 0

\* The speeds list in ascending order with every speed listed once.
RECURSIVE Dedup(_)
Dedup(sorted) ==
    IF Len(sorted) <= 1 THEN sorted
    ELSE IF sorted[1] = sorted[2] THEN Dedup(Tail(sorted))
         ELSE <<sorted[1]>> \o Dedup(Tail(sorted))

Normalized(prof) == [prof EXCEPT !.speeds = Dedup(sortSpeeds(prof.speeds))]

\* What the builder of the call returns for a profile and the call's options.
Rebuilt(prof) ==
    IF call.op = "makeIntervals" THEN makeIntervals(prof, call.opts)
    ELSE IF call.op = "makeSteady" THEN makeSteady(prof, call.opts)
    ELSE makeProgression(prof, call.opts)

\* C19: for each of the three builders and every options value, a profile
\* whose speeds list is out of order or has duplicates yields the workout
\* that the profile with the sorted, de-duplicated list yields.
C19_SortedDedupSame ==
    BuilderReturned => workout = Rebuilt(Normalized(profile)).workout

-----------------------------------------------------------------------------
(* describe *)

\* The number a field of digits stands for, and the time of a MM:SS pair.
RECURSIVE NumberOf(_)
NumberOf(digits) ==
    IF Len(digits) = 0 THEN 0
    ELSE 10 * NumberOf(SubSeq(digits, 1, Len(digits) - 1)) + digits[Len(digits)]
TimeOf(mmss) == 60 * NumberOf(mmss[1]) + NumberOf(mmss[2])

DescribeReturned == call.op = "describe" /\ status = "returned"

\* C20: describe emits exactly one line per segment, in segment order; the
\* first line starts at 00:00, every line starts where the line before it
\* ends, the last line ends at the sum of all durations, the seconds field
\* is always in 0..59 and the minutes field is never wrapped.
C20_DescribeLines ==
    DescribeReturned =>
        LET segs == workout.segments
        IN  /\ Len(lines) = Len(segs)
            /\ \A i \in DOMAIN lines :
                   /\ lines[i].speed = segs[i].speed
                   /\ lines[i].start = (IF i = 1 THEN << <<0, 0>>, <<0, 0>> >>
                                        ELSE lines[i - 1].end)
                   /\ TimeOf(lines[i].end) = SecsUpTo(segs, i)
                   /\ NumberOf(lines[i].start[2]) \in 0..59
                   /\ NumberOf(lines[i].end[2]) \in 0..59
                   /\ Len(lines[i].end[2]) = 2 /\ Len(lines[i].end[1]) >= 2
            /\ Len(lines) > 0 =>
                   TimeOf(lines[Len(lines)].end) = SumSecs(segs)

\* Three lines: one that ends where it starts, and minutes of three digits.
C20_Witness ==
    /\ DescribeReturned
    /\ Len(lines) = 3
    /\ \E i \in DOMAIN lines : lines[i].start = lines[i].end
    /\ Len(lines[3].end[1]) = 3
    /\ NumberOf(lines[2].start[1]) >= 60
    /\ NumberOf(lines[3].end[2]) > 0

(***************************************************************************)
(* The ramp limiter's choice.                                              *)
(***************************************************************************)
RampReturned ==
    /\ call.op = "applySafety"
    /\ status = "returned"
    /\ profile.rampLimitPerChange.def

RampLimit == profile.rampLimitPerChange.val

\* The allowed speeds within the ramp limit of prev.
Within(prev) == {v \in Range(profile.speeds) : Abs(v - prev) <= RampLimit}

\* Those of C that no other member of C beats in closeness to base.
Closest(C, base) == {v \in C : \A w \in C : Abs(v - base) <= Abs(w - base)}

\* The quantized base speed of raw segment i.
BaseOf(i) == FloorOf(Range(profile.speeds), raw[i].speed)

\* C21: a non-first segment whose quantized base speed is further than the
\* ramp limit from the speed emitted for the segment before it (the
\* constrained one, not that segment's raw target) is emitted at the allowed
\* speed within the limit of that previous speed which is closest to the
\* base, the smallest of the equally close ones.
C21_ClosestWithinLimit ==
    RampReturned =>
        \A i \in 2..Len(constrained) :
            LET prev == constrained[i - 1].speed
            IN  (Abs(BaseOf(i) - prev) > RampLimit /\ Within(prev) # {})
                => constrained[i].speed = MinOfSet(Closest(Within(prev), BaseOf(i)))

\* A segment limited after a segment that was itself limited, chosen among
\* several speeds within reach and moved off the previous speed.
C21_Witness ==
    /\ RampReturned
    /\ Len(constrained) = 3
    /\ constrained[2].speed # BaseOf(2)
    /\ Abs(BaseOf(3) - constrained[2].speed) > RampLimit
    /\ Cardinality(Within(constrained[2].speed)) >= 2
    /\ constrained[3].speed # constrained[2].speed
    /\ constrained[3].speed # BaseOf(3)

(***************************************************************************)
(* The merge stage.                                                        *)
(***************************************************************************)
MergeReturned ==
    /\ call.op = "applySafety"
    /\ status = "returned"
    /\ profile.minSegmentSec.def

\* No raw cue is the empty string: every cue is absent or some text.
CuesAreText == \A i \in 1..Len(raw) : raw[i].cue.def => raw[i].cue.text # <<>>

\* "a | b" when both cues are defined and different, otherwise whichever is
\* defined.
JoinedCue(a, b) ==
    IF a.def /\ b.def /\ a # b THEN Cue(a.text \o <<SepTok>> \o b.text)
    ELSE IF a.def THEN a ELSE b

\* The output after the first k constrained segments of one left-to-right
\* pass with minimum length m.
PassUpTo(segs, m) ==
    LET P[k \in 0..Len(segs)] ==
            IF k = 0 THEN <<>>
            ELSE LET acc == P[k - 1]
                     s == segs[k]
                     L == acc[Len(acc)]
                 IN  IF /\ Len(acc) > 0
                        /\ L.speed = s.speed
                        /\ (L.secs < m \/ s.secs < m)
                     THEN SubSeq(acc, 1, Len(acc) - 1)
                          \o <<[secs |-> L.secs + s.secs, speed |-> L.speed,
                                cue |-> JoinedCue(L.cue, s.cue)]>>
                     ELSE acc \o <<s>>
    IN  P[Len(segs)]

\* C22: with a minimum segment length the output is that of a single
\* left-to-right pass over the constrained segments which merges a segment
\* into the last output entry exactly when there is one, the speeds are equal
\* and either the entry's accumulated duration or the segment's is below the
\* minimum; the merged entry has the summed duration, the same speed and the
\* cue "a | b" when both cues are defined and different, otherwise whichever
\* is defined; any other segment is appended unchanged.
C22_MergePass ==
    (MergeReturned /\ CuesAreText)
        => safeSegments = PassUpTo(constrained, profile.minSegmentSec.val)

\* Three segments at one speed: the first two merge, with their cues joined,
\* into an entry long enough that the third, itself long enough, is appended.
C22_Witness ==
    /\ MergeReturned /\ CuesAreText
    /\ Len(constrained) = 3
    /\ Len(safeSegments) = 2
    /\ constrained[1].speed = constrained[3].speed
    /\ constrained[1].secs < profile.minSegmentSec.val
    /\ safeSegments[1].secs = constrained[1].secs + constrained[2].secs
    /\ HasTok(safeSegments[1].cue, " | ")
    /\ safeSegments[2] = constrained[3]

(***************************************************************************)
(* The safety pass as a grouping of the raw plan.                          *)
(***************************************************************************)
\* Final segments g, g+1, ... are, in order, contiguous runs of the raw
\* segments start, start+1, ... that use each of them once: each final
\* segment lasts as long as its run and runs at the speed the limiter gave
\* every member of the run.
RECURSIVE GroupsFrom(_, _)
GroupsFrom(g, start) ==
    IF g > Len(safeSegments) THEN start = Len(raw) + 1
    ELSE \E end \in start..Len(raw) :
            /\ safeSegments[g].secs = SecsUpTo(raw, end) - SecsUpTo(raw, start - 1)
            /\ \A j \in start..end : constrained[j].speed = safeSegments[g].speed
            /\ GroupsFrom(g + 1, end + 1)

\* C23: the list a builder's workout carries is an order-preserving grouping
\* of the raw plan: its segments are, in order, contiguous runs of raw
\* segments covering each raw segment once, each lasting the sum of its run.
\* The pass constrains the raw segments one for one, so it neither reorders
\* nor changes the total duration.
C23_GroupingOfRaw ==
    BuilderReturned =>
        /\ Len(constrained) = Len(raw)
        /\ \A j \in 1..Len(raw) : constrained[j].secs = raw[j].secs
        /\ safeSegments = workout.segments
        /\ GroupsFrom(1, 1)
        /\ SumSecs(safeSegments) = SumSecs(raw)

\* A plan of which a run of several segments became one, between other
\* segments, some segment having been moved by the ramp limiter.
C23_Witness ==
    /\ BuilderReturned
    /\ SomeMerge /\ SomeClamp
    /\ Len(safeSegments) >= 3
    /\ \E g \in 2..(Len(safeSegments) - 1) :
          \A j \in 1..Len(raw) : raw[j].secs # safeSegments[g].secs

(***************************************************************************)
(* The raw ladder of makeProgression.                                      *)
(***************************************************************************)
\* The warm speed and the top speed: the quantized bases of
\* min + 0.35 (max - min) and of max * topIntensity, the latter held between
\* the warm speed and max.
WarmSpeed ==
    LET S == Range(profile.speeds)
    IN  FloorOf(S, MinOfSet(S) + ((MaxOfSet(S) - MinOfSet(S)) * 35) \div 100)
TopSpeed ==
    LET S == Range(profile.speeds)
        target == (MaxOfSet(S) * OrDefault(call.opts.topIntensity, 80)) \div 100
    IN  FloorOf(S, Max2(WarmSpeed, Min2(MaxOfSet(S), target)))

\* The entries of profile.speeds in [warm, top], their number, and the one
\* at place k (from 1) when they are listed in ascending order.
UsableEntries ==
    {j \in DOMAIN profile.speeds :
        profile.speeds[j] >= WarmSpeed /\ profile.speeds[j] <= TopSpeed}
UsableCount == Cardinality(UsableEntries)
UsableAt(k) ==
    MinOfSet({v \in Range(profile.speeds) :
                Cardinality({j \in UsableEntries : profile.speeds[j] <= v}) >= k})

\* round(i / (steps - 1) * (n - 1)): the whole number within a half of the
\* quotient, the upper one of two.
RoundedIndex(i, steps, n) ==
    CHOOSE idx \in 0..(n - 1) :
        /\ 2 * idx * (steps - 1) <= 2 * i * (n - 1) + (steps - 1)
        /\ 2 * i * (n - 1) + (steps - 1) < 2 * (idx + 1) * (steps - 1)

\* The speed of raw ladder entry i (from 0): the raw plan is the warm-up, the
\* ladder, the cool-down.
Rung(i) == raw[i + 2].speed

\* C24: the raw ladder of makeProgression has exactly max(1, steps) entries,
\* each an allowed speed between the warm speed and the top speed; for
\* steps > 1 entry i (from 0) is usable[round(i / (steps - 1) * (n - 1))],
\* usable being the n speeds listed in [warm, top] in ascending order, so the
\* first step is the warm speed and the last the top speed; for steps <= 1
\* the single step is the top speed.
C24_RawLadder ==
    ProgressionReturned =>
        LET steps == ProgressionSteps
            count == Max2(1, steps)
        IN  /\ Len(raw) = count + 2
            /\ \A i \in 0..(count - 1) :
                  /\ Rung(i) \in Range(profile.speeds)
                  /\ WarmSpeed <= Rung(i) /\ Rung(i) <= TopSpeed
            /\ steps > 1 =>
                  /\ \A i \in 0..(count - 1) :
                        Rung(i) = UsableAt(RoundedIndex(i, steps, UsableCount) + 1)
                  /\ Rung(0) = WarmSpeed
                  /\ Rung(count - 1) = TopSpeed
            /\ steps <= 1 => Rung(0) = TopSpeed

\* A ladder of more steps than there are usable speeds, from a warm speed
\* above the smallest speed to a top speed below the largest, one index
\* being the upper of two equally near.
C24_Witness ==
    /\ ProgressionReturned
    /\ ProgressionSteps > UsableCount
    /\ UsableCount >= 3
    /\ WarmSpeed > MinOfSet(Range(profile.speeds))
    /\ TopSpeed < MaxOfSet(Range(profile.speeds))
    /\ \E i \in 1..(ProgressionSteps - 1) :
          2 * i * (UsableCount - 1) + (ProgressionSteps - 1)
            = 2 * RoundedIndex(i, ProgressionSteps, UsableCount) * (ProgressionSteps - 1)

\* C25: with a ramp limit >= 0 the speed emitted for a segment is an allowed
\* speed, so the speeds within the limit of it always include it: the limiter
\* always has a candidate, never has to hold the previous speed for want of
\* one, and every two adjacent emitted speeds differ by at most the limit.
C25_AlwaysWithinLimit ==
    (RampReturned /\ RampLimit >= 0) =>
        \A i \in 2..Len(constrained) :
            LET prev == constrained[i - 1].speed
            IN  /\ prev \in Within(prev)
                /\ constrained[i].speed \in Within(prev)
                /\ Abs(constrained[i].speed - prev) <= RampLimit

\* A segment whose base is two limits or more away from the previous emitted
\* speed and which is emitted exactly one limit away from it.
C25_Witness ==
    /\ RampReturned /\ RampLimit > 0
    /\ \E i \in 2..Len(constrained) :
          /\ Abs(BaseOf(i) - constrained[i - 1].speed) >= 2 * RampLimit
          /\ Abs(constrained[i].speed - constrained[i - 1].speed) = RampLimit

\* C27: with a ramp limit >= 0 the speed emitted for a non-first segment lies
\* between the previous emitted speed and the segment's quantized base, both
\* included, so it is never further from the base than the previous emitted
\* speed is: the limiter moves towards the target or stays, never away.
C27_NeverAwayFromBase ==
    (RampReturned /\ RampLimit >= 0) =>
        \A i \in 2..Len(constrained) :
            LET prev == constrained[i - 1].speed
                e == constrained[i].speed
            IN  /\ Min2(prev, BaseOf(i)) <= e
                /\ e <= Max2(prev, BaseOf(i))
                /\ Abs(e - BaseOf(i)) <= Abs(prev - BaseOf(i))

\* A segment emitted strictly between the previous emitted speed and its
\* base, an allowed speed on the far side of the previous one being within
\* the limit as well.
C27_Witness ==
    /\ RampReturned /\ RampLimit >= 0
    /\ \E i \in 2..Len(constrained) :
          LET prev == constrained[i - 1].speed
              e == constrained[i].speed
          IN  /\ prev < e /\ e < BaseOf(i)
              /\ \E v \in Within(prev) : v < prev

(***************************************************************************)
(* The speed a cue names.                                                  *)
(***************************************************************************)
\* The parts of a cue that a builder wrote: each names a speed after "@".
Labels(cue) ==
    {k \in DOMAIN cue.text :
        cue.text[k] \notin {SepTok, ClampedTok, ClampedSuffixTok}}

\* Every speed the segment's label names is the segment's speed.
CueNamesSpeed(segment) ==
    LET label == segmentLabel(segment, workout.units)
    IN  \A k \in Labels(label) : label.text[k][4] = segment.speed

\* The cue carries the "(clamped)" marker somewhere.
CueMarked(cue) ==
    \E k \in DOMAIN cue.text : cue.text[k] \in {ClampedTok, ClampedSuffixTok}

\* C26 as stated: in every segment of a workout a builder returns, the speed
\* written in the cue after "@" is the segment's speed.
C26_Original ==
    BuilderReturned =>
        \A i \in DOMAIN workout.segments : CueNamesSpeed(workout.segments[i])

\* C26 as amended: in every segment of a workout a builder returns whose cue
\* carries no "(clamped)" marker, the speed written in the cue after "@" is
\* the segment's speed.
C26_UnmarkedCueNamesSpeed ==
    BuilderReturned =>
        \A i \in DOMAIN workout.segments :
            ~CueMarked(workout.segments[i].cue) => CueNamesSpeed(workout.segments[i])

\* A workout with a marked segment whose cue names another speed than the
\* one it runs at, and an unmarked segment whose cue is a merge of two.
C26_Witness ==
    /\ BuilderReturned
    /\ \E i \in DOMAIN workout.segments :
          /\ CueMarked(workout.segments[i].cue)
          /\ ~CueNamesSpeed(workout.segments[i])
    /\ \E i \in DOMAIN workout.segments :
          /\ ~CueMarked(workout.segments[i].cue)
          /\ Cardinality(Labels(workout.segments[i].cue)) >= 2

(***************************************************************************)
(* The playback runner.                                                    *)
(***************************************************************************)
\* C28: playing a workout of at least one segment, whatever Start, Pause,
\* Resume, Reset and timer ticks have happened, the segment index is that of
\* a segment, the time elapsed in the segment is between 0 and the segment's
\* length, the total elapsed is between 0 and workout.totalSecs, and when the
\* status is finished the index is the last one and the total elapsed is
\* workout.totalSecs.
C28_RunnerInRange ==
    Len(workout.segments) >= 1 =>
        /\ 0 <= runner.segmentIndex
        /\ runner.segmentIndex < Len(workout.segments)
        /\ 0 <= runner.segmentElapsed
        /\ runner.segmentElapsed <= workout.segments[runner.segmentIndex + 1].secs
        /\ 0 <= runner.totalElapsed
        /\ runner.totalElapsed <= workout.totalSecs
        /\ runner.status = "finished" =>
              /\ runner.segmentIndex = Len(workout.segments) - 1
              /\ runner.totalElapsed = workout.totalSecs

\* A plan of two segments and some seconds played to the end, the interval
\* not yet cleared, after more callbacks than the plan has seconds.
C28_Witness ==
    /\ Len(workout.segments) = 2
    /\ workout.totalSecs > 0
    /\ runner.status = "finished"
    /\ runner.interval = "spent"
    /\ runner.ticks > workout.totalSecs
    /\ runner.spoken[Len(runner.spoken)] = CompleteSpoken

\* The indices of the segments announced since Start, in the order spoken.
Announced ==
    SelectSeq(runner.spoken, LAMBDA m : m[1] = "segment")

\* C29: started on a workout of at least one segment (and of some length)
\* and left alone while the timer keeps ticking, the runner goes through the
\* segments 0, 1, ..., n-1 in order, skipping none, and is finished after
\* exactly workout.totalSecs ticks: it is finished by then and not before.
C29_FinishedOnTime ==
    (/\ Len(workout.segments) >= 1
     /\ workout.totalSecs > 0
     /\ runner.status \in {"running", "finished"}) =>
        /\ Len(Announced) = runner.segmentIndex + 1
        /\ \A k \in DOMAIN Announced : Announced[k] = SegmentSpoken(k - 1)
        /\ runner.status = "finished" =>
              /\ runner.segmentIndex = Len(workout.segments) - 1
              /\ runner.ticks = workout.totalSecs
        /\ runner.status = "running" => runner.ticks < workout.totalSecs

\* Where the runner is in the plan, and what it has spoken.
Position ==
    <<runner.segmentIndex, runner.segmentElapsed, runner.totalElapsed, runner.spoken>>

\* C30: while the status is paused, idle or finished no timer tick changes
\* the segment index, the segment time or the total elapsed, or speaks, not
\* even a tick of the old interval that fires after Pause or Reset was
\* pressed and before the interval is cleared; and nothing but Reset moves
\* a paused runner, so that Resume continues from where Pause was pressed.
C30_NoTickUnlessRunning ==
    [][/\ (Tick /\ runner.status # "running") => Position' = Position
       /\ (runner.status = "paused" /\ runner'.status # "idle")
            => Position' = Position]_vars

=============================================================================
